---- MODULE Spec2Model ----
(***************************************************************************)
(* Model of firmware/src/stepper.c (DriveboardFirmware): the step ISR      *)
(* (TIMER1_COMPA), its trapezoid speed profile and bresenham tracer, the   *)
(* pulse-reset ISRs, and the stop/processing supervisor functions that the *)
(* foreground (protocol loop) calls.                                       *)
(*                                                                         *)
(* Execution contexts.  The AVR is single-core.  The foreground runs only  *)
(* while no ISR is active (isr_pc = "idle"); the step ISR runs with        *)
(* interrupts disabled up to its sei() (one atomic action, ISR_Enter) and  *)
(* with interrupts enabled afterwards (ISR_Body), where the step timer may *)
(* fire again (ISR_Nested) and the two reset ISRs may run.  A foreground   *)
(* call of stepper_request_stop is interruptible between its statements.   *)
(***************************************************************************)
EXTENDS Integers, Sequences, FiniteSets, TLC

\* ------------------------------------------------------------------------
\* Bounds of the model
\* ------------------------------------------------------------------------

\* largest steps_x / steps_y / steps_z of a generated line block
MaxSteps == 3

\* number of blocks the planner is handed over a run (caps the position)
MaxBlocks == 2

\* number of foreground calls of stepper_stop_processing over a run (a block
\* cut short by one is traced again from its start)
MaxStopCalls == 1

\* how far around each branch limit of config_step_timer its argument is taken
MaxOffset == 16

\* ------------------------------------------------------------------------
\* Compile-time configuration (config.h, not part of the sources at hand)
\* ------------------------------------------------------------------------

CYCLES_PER_MINUTE == 960000000

CYCLES_PER_ACCELERATION_TICK == 160000

MINIMUM_STEPS_PER_MINUTE == 1600

CONFIG_BEAMDYNAMICS_EVERY == 2

\* CONFIG_BEAMDYNAMICS_START, in percent (0.20)
CONFIG_BEAMDYNAMICS_START_PCT == 20

ENABLE_LASER_INTERLOCKS == TRUE

ENABLE_3AXES == TRUE

STATIC_PWM_FREQ == FALSE

\* bits of STEPPING_PORT / out_bits, by name
STEPPING_MASK == {"X_STEP_BIT", "Y_STEP_BIT", "Z_STEP_BIT"}

DIRECTION_MASK == {"X_DIRECTION_BIT", "Y_DIRECTION_BIT", "Z_DIRECTION_BIT"}

INVERT_MASK == {"Y_DIRECTION_BIT"}

\* a ^ b on bit sets
Xor(a, b) == (a \ b) \cup (b \ a)

X_AXIS == 0

Y_AXIS == 1

Z_AXIS == 2

Axes == {X_AXIS, Y_AXIS, Z_AXIS}

\* stepper_init: lround(CONFIG_a_ORIGIN_OFFSET * CONFIG_a_STEPS_PER_MM)
OriginSteps == [a \in Axes |-> IF a = Z_AXIS THEN 0 ELSE 1]

STOPERROR_OK == "OK"

StopCodes == {"OK", "LIMIT_HIT_X1", "LIMIT_HIT_X2", "LIMIT_HIT_Y1",
              "LIMIT_HIT_Y2", "LIMIT_HIT_Z1", "LIMIT_HIT_Z2"}

\* statuses the protocol loop passes to stepper_request_stop
ForegroundStopCodes == {"OK", "LIMIT_HIT_Y2"}

Sensors == {"DOOR_OPEN", "CHILLER_OFF", "X1_LIMIT", "X2_LIMIT", "Y1_LIMIT",
            "Y2_LIMIT", "Z1_LIMIT", "Z2_LIMIT"}

\* what the sense inputs may read at one ISR entry
SenseInputs == {{}, {"DOOR_OPEN"}, {"X1_LIMIT"}, {"DOOR_OPEN", "X1_LIMIT"},
                {"X2_LIMIT", "Y1_LIMIT"}, {"Z2_LIMIT"}}

Max(a, b) == IF a >= b THEN a ELSE b

Min(a, b) == IF a <= b THEN a ELSE b

\* ------------------------------------------------------------------------
\* Blocks (planner.h block_t), as the planner hands them over
\* ------------------------------------------------------------------------

NONE == [type |-> "NONE"]

MotionTypes == {"TYPE_LINE", "TYPE_RASTER_LINE"}

AssistTypes == {"TYPE_AIR_ASSIST_ENABLE", "TYPE_AIR_ASSIST_DISABLE",
                "TYPE_AUX1_ASSIST_ENABLE", "TYPE_AUX1_ASSIST_DISABLE",
                "TYPE_AUX2_ASSIST_ENABLE", "TYPE_AUX2_ASSIST_DISABLE"}

IsMotion(b) == b.type \in MotionTypes

Max3(a, b, c) == Max(a, Max(b, c))

Line(t, sx, sy, sz, dir, ir, nr, fr, rd, au, da, li, ps) ==
  [type |-> t, steps_x |-> sx, steps_y |-> sy, steps_z |-> sz,
   direction_bits |-> dir, step_event_count |-> Max3(sx, sy, sz),
   initial_rate |-> ir, nominal_rate |-> nr, final_rate |-> fr,
   rate_delta |-> rd, accelerate_until |-> au, decelerate_after |-> da,
   nominal_laser_intensity |-> li, pixel_steps |-> ps]

Command(t) == Line(t, 0, 0, 0, {}, 0, 0, 0, 0, 0, 0, 0, 0)

\* ------------------------------------------------------------------------
\* Pure functions of stepper.c
\* ------------------------------------------------------------------------

\* config_step_timer: prescaler index, ceiling (OCR1A) and the returned
\* actual_cycles.  The last branch multiplies two 16-bit ints on the AVR.
config_step_timer(cycles) ==
  IF cycles <= 65535 THEN
    [prescaler |-> 0, ceiling |-> cycles, actual_cycles |-> cycles]
  ELSE IF cycles <= 524287 THEN
    [prescaler |-> 1, ceiling |-> cycles \div 8,
     actual_cycles |-> (cycles \div 8) * 8]
  ELSE IF cycles <= 4194303 THEN
    [prescaler |-> 2, ceiling |-> cycles \div 64,
     actual_cycles |-> (cycles \div 64) * 64]
  ELSE IF cycles <= 16777215 THEN
    [prescaler |-> 3, ceiling |-> cycles \div 256,
     actual_cycles |-> (cycles \div 256) * 256]
  ELSE IF cycles <= 67108863 THEN
    [prescaler |-> 4, ceiling |-> cycles \div 1024,
     actual_cycles |-> (cycles \div 1024) * 1024]
  ELSE
    [prescaler |-> 4, ceiling |-> 65535,
     actual_cycles |-> (65535 * 1024) % 65536]

\* a clamp at half the minimum rate
ClampedRate_HalfMinimum(steps_per_minute) ==
  IF steps_per_minute < MINIMUM_STEPS_PER_MINUTE \div 2
  THEN MINIMUM_STEPS_PER_MINUTE \div 2 ELSE steps_per_minute

\* the rate adjust_speed programs: its argument clamped from below
ClampedRate(steps_per_minute) ==
  IF steps_per_minute < MINIMUM_STEPS_PER_MINUTE
  THEN MINIMUM_STEPS_PER_MINUTE ELSE steps_per_minute

\* adjust_speed: the new cycles_per_step_event
adjust_speed(steps_per_minute) ==
  config_step_timer(CYCLES_PER_MINUTE \div ClampedRate(steps_per_minute)).actual_cycles

\* a tick on every step event
acceleration_tick_Always(counter, cycles) ==
  [counter |-> counter + cycles, tick |-> TRUE]

\* acceleration_tick: the new acceleration_tick_counter and the result
\* (the uint32_t sum stays far below 2^32 for the rates modelled)
acceleration_tick(counter, cycles) ==
  LET c == counter + cycles IN
  IF c > CYCLES_PER_ACCELERATION_TICK
  THEN [counter |-> c - CYCLES_PER_ACCELERATION_TICK, tick |-> TRUE]
  ELSE [counter |-> c, tick |-> FALSE]

RECURSIVE Gcd(_, _)
Gcd(a, b) == IF b = 0 THEN a ELSE Gcd(b, a % b)

\* adjust_beam_dynamics: the intensity handed to control_laser_intensity,
\*   dimm = START + (1-START)*I/255
\*   I * ((1-dimm) + dimm*steps_per_minute/nominal_rate)   truncated to uint8
\* computed exactly over the rationals (START = pct/100), the rate ratio
\* reduced to lowest terms first.
adjust_beam_dynamics(steps_per_minute, b) ==
  LET I  == b.nominal_laser_intensity
      g  == Gcd(b.nominal_rate, steps_per_minute)
      p  == steps_per_minute \div g
      q  == b.nominal_rate \div g
      D  == 100 * 255
      dn == CONFIG_BEAMDYNAMICS_START_PCT * 255
            + (100 - CONFIG_BEAMDYNAMICS_START_PCT) * I
  IN  ((I * ((D - dn) * q + dn * p)) \div (D * q)) % 256

\* the intensity after a rate change: raster lines stay at 0
RateChangeIntensity(steps_per_minute, b) ==
  IF b.type = "TYPE_RASTER_LINE" THEN 0
  ELSE adjust_beam_dynamics(steps_per_minute, b)

\* raster byte to intensity: (chr-128)*2*nominal_laser_intensity/255 in
\* 16-bit int arithmetic, truncating division, stored to a uint8_t
S16(v) == ((v + 32768) % 65536) - 32768

TruncDiv(a, b) == IF a >= 0 THEN a \div b ELSE -((-a) \div b)

\* what a build may make of a signed int product that does not fit in 16
\* bits (undefined in C): the two's complement wrap of the hardware multiply,
\* or the product as if it had fitted
OverflowOutcomes == {"wrap", "exact"}

RasterProduct(chr, b, ovf) ==
  LET p == (chr - 128) * 2 * b.nominal_laser_intensity
  IN  IF ovf = "wrap" THEN S16(p) ELSE p

RasterIntensity(chr, b, ovf) ==
  (TruncDiv(RasterProduct(chr, b, ovf), 255) + 256) % 256

\* the tracer with if (counter >= 0)
BresenhamAxis_NonStrict(counter, steps, step_event_count) ==
  IF counter + steps >= 0
  THEN [counter |-> counter + steps - step_event_count, step |-> TRUE]
  ELSE [counter |-> counter + steps, step |-> FALSE]

\* one axis of the bresenham tracer: counter += steps; if (counter > 0)
\* { step; counter -= step_event_count; }
BresenhamAxis(counter, steps, step_event_count) ==
  IF counter + steps > 0
  THEN [counter |-> counter + steps - step_event_count, step |-> TRUE]
  ELSE [counter |-> counter + steps, step |-> FALSE]

\* position bookkeeping of one stepped axis: -1 if its direction bit is set
PositionDelta(stepped, dirbit, direction_bits) ==
  IF ~stepped THEN 0 ELSE IF dirbit \in direction_bits THEN -1 ELSE 1

\* the acceleration step without the overshoot clamp
AccelerateRate_Unclamped(rate, b) == rate + b.rate_delta

\* adjusted_rate += rate_delta, clamped to nominal_rate when it overshot
AccelerateRate(rate, b) ==
  LET r1 == rate + b.rate_delta
  IN  IF r1 > b.nominal_rate THEN b.nominal_rate ELSE r1

\* adjusted_rate -= rate_delta (unsigned, so not below 0), clamped to
\* final_rate when it overshot
DecelerateRate(rate, b) ==
  LET r1 == IF rate > b.rate_delta THEN rate - b.rate_delta ELSE 0
  IN  IF r1 < b.final_rate THEN b.final_rate ELSE r1

\* the phase tests with the acceleration test off by one
Phase_InclusiveAccelerate(b, sec) ==
  IF sec <= b.accelerate_until THEN "accelerating"
  ELSE IF sec = b.decelerate_after THEN "midpoint"
  ELSE IF sec >= b.decelerate_after THEN "decelerating"
  ELSE "cruise"

\* the if / else-if chain of the speed adjustment, in its order
Phase(b, sec) ==
  IF sec < b.accelerate_until THEN "accelerating"
  ELSE IF sec = b.decelerate_after THEN "midpoint"
  ELSE IF sec >= b.decelerate_after THEN "decelerating"
  ELSE "cruise"

\* the speed adjustment of one step event of an unfinished block
\* (step_events_completed < step_event_count): the new adjusted_rate,
\* acceleration_tick_counter, cycles_per_step_event and laser intensity, and
\* what was called.  chr is the byte serial_raster_read would return.
SpeedAdjustment(b, sec, rate, acc, cycles, intensity, chr, ovf) ==
  IF Phase(b, sec) = "accelerating" THEN
    LET t  == acceleration_tick(acc, cycles)
        r2 == AccelerateRate(rate, b)
    IN  IF t.tick
        THEN [rate |-> r2, acc |-> t.counter, cycles |-> adjust_speed(r2),
              intensity |-> RateChangeIntensity(r2, b),
              calls |-> {"accelerating", "adjust_speed", "accelerate"}]
        ELSE [rate |-> rate, acc |-> t.counter, cycles |-> cycles,
              intensity |-> intensity, calls |-> {"accelerating"}]
  ELSE IF Phase(b, sec) = "midpoint" THEN
    \* deceleration start: reset counter, midpoint rule
    [rate |-> rate, acc |-> CYCLES_PER_ACCELERATION_TICK \div 2,
     cycles |-> cycles, intensity |-> intensity, calls |-> {"midpoint"}]
  ELSE IF Phase(b, sec) = "decelerating" THEN
    LET t  == acceleration_tick(acc, cycles)
        r2 == DecelerateRate(rate, b)
    IN  IF t.tick
        THEN [rate |-> r2, acc |-> t.counter, cycles |-> adjust_speed(r2),
              intensity |-> RateChangeIntensity(r2, b),
              calls |-> {"decelerating", "adjust_speed", "decelerate"}]
        ELSE [rate |-> rate, acc |-> t.counter, cycles |-> cycles,
              intensity |-> intensity, calls |-> {"decelerating"}]
  ELSE
    \* cruising
    LET snap == rate # b.nominal_rate
        i1   == IF snap THEN RateChangeIntensity(b.nominal_rate, b)
                ELSE intensity
        c1   == IF snap THEN adjust_speed(b.nominal_rate) ELSE cycles
        px   == b.type = "TYPE_RASTER_LINE" /\ sec % b.pixel_steps = 0
    IN  [rate |-> b.nominal_rate, acc |-> acc, cycles |-> c1,
         intensity |-> IF px THEN RasterIntensity(chr, b, ovf) ELSE i1,
         calls |-> (IF snap THEN {"adjust_speed", "cruise"} ELSE {"cruise"})
                   \cup (IF px THEN {"serial_raster_read"} ELSE {})]

\* ------------------------------------------------------------------------
\* State
\* ------------------------------------------------------------------------

VARIABLES
  \* stepper.c statics
  stepper_position, current_block, out_bits,
  counter_x, counter_y, counter_z, step_events_completed, busy,
  cycles_per_step_event, acceleration_tick_counter, adjusted_rate,
  processing_flag, stop_requested, stop_status, pwm_counter,
  \* hardware registers: TIMSK1.OCIE1A, the laser pin, timer0 running
  OCIE1A, LASER_PWM_BIT, TCCR0B,
  \* collaborators: the planner's block buffer (head first), the intensity
  \* held by sense_control
  block_buffer, laser_intensity,
  \* contexts: where the step ISR stands, where the foreground stands inside
  \* stepper_request_stop and the status it was called with
  isr_pc, fg_pc, fg_status,
  \* observation: what the last operation called or emitted, the block last
  \* fetched, the step bits set in out_bits per axis for it and the position
  \* at its entry, blocks handed to the planner and foreground calls of
  \* stepper_stop_processing so far, and whether a second
  \* invocation of the step ISR got past the busy guard
  emitted, traced_block, block_pulses, block_entry_position, enqueued,
  stop_calls, reentered,
  \* the build: whether DRIVEBOARD_USB is defined
  DRIVEBOARD_USB,
  \* observation: whether out_bits holds a step event that no invocation
  \* has latched to the port yet
  out_bits_fresh,
  \* the blocking homing cycle, and a single call of a pure function
  homing, call

vars == <<stepper_position, current_block, out_bits, counter_x, counter_y,
          counter_z, step_events_completed, busy, cycles_per_step_event,
          acceleration_tick_counter, adjusted_rate, processing_flag,
          stop_requested, stop_status, pwm_counter, OCIE1A, LASER_PWM_BIT, TCCR0B, block_buffer, laser_intensity,
          isr_pc, fg_pc, fg_status, emitted, traced_block, block_pulses,
          block_entry_position, enqueued, stop_calls, reentered,
          DRIVEBOARD_USB, out_bits_fresh, homing, call>>

motion_vars == <<stepper_position, out_bits, counter_x, counter_y, counter_z,
                 step_events_completed, cycles_per_step_event,
                 acceleration_tick_counter, adjusted_rate, traced_block,
                 block_pulses, block_entry_position>>

other_vars == <<homing, call>>

stepper_vars == <<stepper_position, current_block, out_bits, counter_x,
                  counter_y, counter_z, step_events_completed, busy,
                  cycles_per_step_event, acceleration_tick_counter,
                  adjusted_rate, processing_flag, stop_requested, stop_status,
                  pwm_counter, OCIE1A, LASER_PWM_BIT, TCCR0B, block_buffer,
                  laser_intensity, isr_pc, fg_pc, fg_status, emitted,
                  traced_block, block_pulses, block_entry_position, enqueued,
                  stop_calls, reentered, DRIVEBOARD_USB, out_bits_fresh>>

stop_vars == <<stop_requested, stop_status>>

pin_vars == <<LASER_PWM_BIT, TCCR0B, pwm_counter>>

fg_vars == <<fg_pc, fg_status, DRIVEBOARD_USB>>

ZeroVector == [a \in Axes |-> 0]

\* no homing cycle under way
NotHoming == [pc |-> "idle"]

\* no function called yet
NoCall == [fn |-> "none"]

\* stepper_init from reset (statics zeroed, pwm_counter = 1)
Init ==
  /\ stepper_position = OriginSteps
  /\ current_block = NONE
  /\ out_bits = {}
  /\ counter_x = 0 /\ counter_y = 0 /\ counter_z = 0
  /\ step_events_completed = 0
  /\ busy = FALSE
  /\ cycles_per_step_event = adjust_speed(MINIMUM_STEPS_PER_MINUTE)
  /\ acceleration_tick_counter = 0
  /\ adjusted_rate = 0
  /\ processing_flag = FALSE
  /\ stop_requested = FALSE
  /\ stop_status = STOPERROR_OK
  /\ pwm_counter = 1
  /\ OCIE1A = FALSE
  /\ LASER_PWM_BIT = FALSE
  /\ TCCR0B = FALSE
  /\ block_buffer = <<>>
  /\ laser_intensity = 0
  /\ isr_pc = "idle"
  /\ fg_pc = "idle"
  /\ fg_status = STOPERROR_OK
  /\ emitted = {}
  /\ traced_block = NONE
  /\ block_pulses = ZeroVector
  /\ block_entry_position = OriginSteps
  /\ enqueued = 0
  /\ stop_calls = 0
  /\ reentered = FALSE
  /\ DRIVEBOARD_USB \in BOOLEAN
  /\ out_bits_fresh = FALSE
  /\ homing = NotHoming
  /\ call = NoCall

\* ------------------------------------------------------------------------
\* Supervisor functions (their effect, used by the ISR and the foreground)
\* ------------------------------------------------------------------------

\* stepper_stop_processing without the write to TIMSK1
stepper_stop_processing_Armed ==
  /\ processing_flag' = FALSE
  /\ current_block' = NONE
  /\ UNCHANGED OCIE1A
  /\ laser_intensity' = 0

\* stepper_stop_processing
stepper_stop_processing ==
  /\ processing_flag' = FALSE
  /\ current_block' = NONE
  /\ OCIE1A' = FALSE
  /\ laser_intensity' = 0

\* stepper_request_stop that sets the flag and drops the status
stepper_request_stop_NoStatus(status) ==
  IF ~stop_requested
  THEN stop_requested' = TRUE /\ UNCHANGED stop_status
  ELSE UNCHANGED stop_vars

\* stepper_request_stop(status) run without interruption (from the ISR,
\* before its sei()); serial_stop() is reported by RequestStopCalls
stepper_request_stop(status) ==
  IF ~stop_requested
  THEN stop_status' = status /\ stop_requested' = TRUE
  ELSE UNCHANGED stop_vars

RequestStopCalls == IF ~stop_requested THEN {"serial_stop"} ELSE {}

\* the limit checks of the ISR, in their order: the status to stop with
LimitHit(sense) ==
  IF "X1_LIMIT" \in sense THEN "LIMIT_HIT_X1"
  ELSE IF "X2_LIMIT" \in sense THEN "LIMIT_HIT_X2"
  ELSE IF "Y1_LIMIT" \in sense THEN "LIMIT_HIT_Y1"
  ELSE IF "Y2_LIMIT" \in sense THEN "LIMIT_HIT_Y2"
  ELSE IF ENABLE_3AXES /\ "Z1_LIMIT" \in sense THEN "LIMIT_HIT_Z1"
  ELSE IF ENABLE_3AXES /\ "Z2_LIMIT" \in sense THEN "LIMIT_HIT_Z2"
  ELSE "NONE"

InterlockOpen(sense) == "DOOR_OPEN" \in sense \/ "CHILLER_OFF" \in sense

\* ------------------------------------------------------------------------
\* The step ISR, TIMER1_COMPA_vect
\* ------------------------------------------------------------------------

\* "pulse laser": every CONFIG_BEAMDYNAMICS_EVERY-th entry starts a pulse;
\* timer0 is armed for the reset only below duty 242
LaserPulse(duty) ==
  IF STATIC_PWM_FREQ THEN UNCHANGED <<pwm_counter, LASER_PWM_BIT, TCCR0B>>
  ELSE IF pwm_counter < CONFIG_BEAMDYNAMICS_EVERY THEN
    /\ pwm_counter' = pwm_counter + 1
    /\ UNCHANGED <<LASER_PWM_BIT, TCCR0B>>
  ELSE
    /\ pwm_counter' = 1
    /\ IF duty = 0
       THEN LASER_PWM_BIT' = FALSE /\ UNCHANGED TCCR0B
       ELSE LASER_PWM_BIT' = TRUE /\ TCCR0B' = (duty < 242)

LaserPulseEmitted(duty) ==
  IF ~STATIC_PWM_FREQ /\ pwm_counter >= CONFIG_BEAMDYNAMICS_EVERY /\ duty # 0
  THEN {"LASER_PULSE"} ELSE {}

\* "pulse steppers": the step lines this latch of out_bits drives active
\* (the port itself, and its reset by TIMER2_OVF_vect a few microseconds
\* later, are not traced)
StepPulsesEmitted == Xor(out_bits, INVERT_MASK) \cap STEPPING_MASK

\* an invocation that goes past the guard without setting busy
SetBusy_Skipped == UNCHANGED busy

\* a return before sei() that leaves busy set
EarlyReturn_Busy == busy' = TRUE

\* busy = true, past the guard
SetBusy == busy' = TRUE

\* busy = false; return -- the exits before sei()
EarlyReturn == busy' = FALSE

\* busy = false -- the exits after sei()
ClearBusy == busy' = FALSE

PulseEvents == STEPPING_MASK \cup {"LASER_PULSE"}

\* "honor interlocks": the call control_laser_intensity(0), as it is reported
InterlockCalls(sense) ==
  IF ENABLE_LASER_INTERLOCKS /\ InterlockOpen(sense)
  THEN {"control_laser_intensity"} ELSE {}

\* entry of the ISR up to its sei(): runs with interrupts disabled
ISR_Enter(sense) ==
  /\ OCIE1A
  /\ UNCHANGED other_vars
  /\ isr_pc = "idle"
  /\ IF busy THEN
       \* the busy-flag is used to avoid reentering this interrupt
       /\ emitted' = {"TIMER1_COMPA", "tick_dropped"}
       /\ UNCHANGED <<motion_vars, stop_vars, pin_vars, fg_vars, current_block,
                      busy, processing_flag, OCIE1A, block_buffer,
                      laser_intensity, isr_pc, enqueued, stop_calls, reentered,
                      out_bits_fresh>>
     ELSE IF stop_requested THEN
       \* go idle, absorb blocks
       /\ stepper_stop_processing
       /\ block_buffer' = <<>>
       /\ EarlyReturn
       /\ emitted' = {"TIMER1_COMPA", "planner_reset_block_buffer"}
       /\ UNCHANGED <<motion_vars, stop_vars, pin_vars, fg_vars, isr_pc,
                      enqueued, stop_calls, reentered, out_bits_fresh>>
     ELSE IF ENABLE_LASER_INTERLOCKS /\ LimitHit(sense) # "NONE" THEN
       \* stop program when any limit is hit
       /\ laser_intensity' = IF InterlockOpen(sense) THEN 0 ELSE laser_intensity
       /\ stepper_request_stop(LimitHit(sense))
       /\ EarlyReturn
       /\ emitted' = {"TIMER1_COMPA", LimitHit(sense)} \cup RequestStopCalls
                       \cup InterlockCalls(sense)
       /\ UNCHANGED <<motion_vars, pin_vars, fg_vars, current_block,
                      processing_flag, OCIE1A, block_buffer, isr_pc,
                      enqueued, stop_calls, reentered, out_bits_fresh>>
     ELSE
       LET duty == IF ENABLE_LASER_INTERLOCKS /\ InterlockOpen(sense)
                   THEN 0 ELSE laser_intensity
       IN  /\ SetBusy
           /\ laser_intensity' = duty
           /\ LaserPulse(duty)
           /\ isr_pc' = "body"
           /\ out_bits_fresh' = FALSE
           /\ emitted' = {"TIMER1_COMPA"} \cup LaserPulseEmitted(duty)
                           \cup StepPulsesEmitted \cup InterlockCalls(sense)
           /\ UNCHANGED <<motion_vars, stop_vars, fg_vars, current_block,
                          processing_flag, OCIE1A, block_buffer, enqueued,
                          stop_calls, reentered>>

\* the step timer fires again after the sei() of a running invocation: with
\* busy set the tick is dropped; otherwise a second invocation is past the
\* guard and latches out_bits again (recorded, and traced no further)
ISR_Nested ==
  /\ OCIE1A
  /\ UNCHANGED <<other_vars, out_bits_fresh>>
  /\ isr_pc = "body"
  /\ reentered' = (reentered \/ ~busy)
  /\ emitted' = IF busy THEN {"TIMER1_COMPA", "tick_dropped"}
                ELSE {"TIMER1_COMPA"} \cup StepPulsesEmitted
                       \cup LaserPulseEmitted(laser_intensity)
  /\ UNCHANGED <<motion_vars, stop_vars, pin_vars, fg_vars, current_block,
                 busy, processing_flag, OCIE1A, block_buffer, laser_intensity,
                 isr_pc, enqueued, stop_calls>>

\* planner_get_current_block
planner_get_current_block ==
  IF block_buffer = <<>> THEN NONE ELSE Head(block_buffer)

\* planner_discard_current_block
planner_discard_current_block ==
  block_buffer' = IF block_buffer = <<>> THEN <<>> ELSE Tail(block_buffer)

\* a seed of -step_event_count
CounterSeed_Full(b) == -(b.step_event_count)

\* the seed of the bresenham counters: -(step_event_count >> 1)
CounterSeed(b) == -(b.step_event_count \div 2)

\* command types the switch of the ISR has a case for: the AUX cases are
\* compiled only without DRIVEBOARD_USB
HandledAssistTypes ==
  IF DRIVEBOARD_USB
  THEN {"TYPE_AIR_ASSIST_ENABLE", "TYPE_AIR_ASSIST_DISABLE"}
  ELSE AssistTypes

\* the rest of the ISR, after sei(): fetch a block if there is none, trace
\* one step event of a line block or run a command block, clear busy
ISR_Body(chr, ovf) ==
  /\ isr_pc = "body"
  /\ UNCHANGED other_vars
  /\ isr_pc' = "idle"
  /\ ClearBusy
  /\ UNCHANGED <<stop_vars, pin_vars, fg_vars, OCIE1A, enqueued, stop_calls,
                 reentered>>
  /\ LET fresh == current_block = NONE
         b     == IF fresh THEN planner_get_current_block ELSE current_block
         init  == fresh /\ IsMotion(b)
         \* "starting on new line block"
         rate0 == IF init THEN b.initial_rate ELSE adjusted_rate
         acc0  == IF init THEN CYCLES_PER_ACCELERATION_TICK \div 2
                  ELSE acceleration_tick_counter
         cyc0  == IF init THEN adjust_speed(rate0) ELSE cycles_per_step_event
         int0  == IF init THEN RateChangeIntensity(rate0, b) ELSE laser_intensity
         cx0   == IF init THEN CounterSeed(b) ELSE counter_x
         cy0   == IF init THEN CounterSeed(b) ELSE counter_y
         cz0   == IF init THEN CounterSeed(b) ELSE counter_z
         sec0  == IF init THEN 0 ELSE step_events_completed
         bp0   == IF init THEN ZeroVector ELSE block_pulses
         ep0   == IF init THEN stepper_position ELSE block_entry_position
         ini   == IF init THEN {"block_entry", "adjust_speed"} ELSE {}
     IN
     IF b = NONE THEN
       \* still no block: go idle, disable interrupt
       /\ stepper_stop_processing
       /\ emitted' = {}
       /\ UNCHANGED <<motion_vars, block_buffer, out_bits_fresh>>
     ELSE IF IsMotion(b) THEN
       LET x   == BresenhamAxis(cx0, b.steps_x, b.step_event_count)
           y   == BresenhamAxis(cy0, b.steps_y, b.step_event_count)
           z   == BresenhamAxis(cz0, b.steps_z, b.step_event_count)
           ob  == b.direction_bits
                    \cup (IF x.step THEN {"X_STEP_BIT"} ELSE {})
                    \cup (IF y.step THEN {"Y_STEP_BIT"} ELSE {})
                    \cup (IF z.step THEN {"Z_STEP_BIT"} ELSE {})
           sec == sec0 + 1
           adj == SpeedAdjustment(b, sec, rate0, acc0, cyc0, int0, chr, ovf)
           stp == [a \in Axes |-> IF a = X_AXIS THEN x.step
                                  ELSE IF a = Y_AXIS THEN y.step ELSE z.step]
           dir == [a \in Axes |-> IF a = X_AXIS THEN "X_DIRECTION_BIT"
                                  ELSE IF a = Y_AXIS THEN "Y_DIRECTION_BIT"
                                  ELSE "Z_DIRECTION_BIT"]
       IN
       /\ counter_x' = x.counter
       /\ counter_y' = y.counter
       /\ counter_z' = z.counter
       /\ stepper_position' =
            [a \in Axes |-> stepper_position[a]
                            + PositionDelta(stp[a], dir[a], b.direction_bits)]
       /\ block_pulses' = [a \in Axes |-> bp0[a] + IF stp[a] THEN 1 ELSE 0]
       /\ block_entry_position' = ep0
       /\ traced_block' = b
       /\ step_events_completed' = sec
       /\ out_bits' = Xor(ob, INVERT_MASK)
       /\ out_bits_fresh' = TRUE
       /\ IF sec < b.step_event_count THEN
            \* block not finished
            /\ adjusted_rate' = adj.rate
            /\ acceleration_tick_counter' = adj.acc
            /\ cycles_per_step_event' = adj.cycles
            /\ laser_intensity' = adj.intensity
            /\ current_block' = b
            /\ emitted' = ini \cup adj.calls
            /\ UNCHANGED <<block_buffer, processing_flag>>
          ELSE
            \* block finished
            /\ adjusted_rate' = rate0
            /\ acceleration_tick_counter' = acc0
            /\ cycles_per_step_event' = cyc0
            /\ laser_intensity' = int0
            /\ current_block' = NONE
            /\ planner_discard_current_block
            /\ emitted' = ini \cup {"planner_discard_current_block"}
                          \cup (IF b.type = "TYPE_RASTER_LINE"
                                THEN {"serial_consume_data"} ELSE {})
            /\ UNCHANGED processing_flag
     ELSE IF b.type \in HandledAssistTypes THEN
       \* control_air_assist / control_aux1_assist / control_aux2_assist
       /\ current_block' = NONE
       /\ planner_discard_current_block
       /\ emitted' = {b.type, "planner_discard_current_block"}
       /\ traced_block' = b
       /\ UNCHANGED <<stepper_position, out_bits, counter_x, counter_y,
                      counter_z, step_events_completed, cycles_per_step_event,
                      acceleration_tick_counter, adjusted_rate, block_pulses,
                      block_entry_position, laser_intensity, processing_flag,
                      out_bits_fresh>>
     ELSE
       \* a type the switch has no case for
       /\ current_block' = b
       /\ emitted' = {"unhandled"}
       /\ traced_block' = b
       /\ UNCHANGED <<stepper_position, out_bits, counter_x, counter_y,
                      counter_z, step_events_completed, cycles_per_step_event,
                      acceleration_tick_counter, adjusted_rate, block_pulses,
                      block_entry_position, laser_intensity, processing_flag,
                      block_buffer, out_bits_fresh>>

\* TIMER0_OVF_vect: laser pin off, stop timer0
TIMER0_OVF ==
  /\ TCCR0B
  /\ UNCHANGED <<other_vars, out_bits_fresh>>
  /\ LASER_PWM_BIT' = FALSE
  /\ TCCR0B' = FALSE
  /\ emitted' = {}
  /\ UNCHANGED <<motion_vars, stop_vars, fg_vars, current_block, busy,
                 processing_flag, pwm_counter, OCIE1A,
                 block_buffer, laser_intensity, isr_pc, enqueued, stop_calls, reentered>>
\* ------------------------------------------------------------------------
\* The foreground (protocol loop); it runs only while no ISR is active
\* ------------------------------------------------------------------------

Foreground == isr_pc = "idle" /\ fg_pc = "idle"

\* stepper_start_processing
stepper_start_processing ==
  /\ Foreground
  /\ UNCHANGED other_vars
  /\ IF ~processing_flag
     THEN /\ processing_flag' = TRUE
          /\ out_bits' = INVERT_MASK
          /\ out_bits_fresh' = FALSE
          /\ OCIE1A' = TRUE
     ELSE UNCHANGED <<processing_flag, out_bits, out_bits_fresh, OCIE1A>>
  /\ emitted' = {}
  /\ UNCHANGED <<stepper_position, counter_x, counter_y, counter_z,
                 step_events_completed, cycles_per_step_event,
                 acceleration_tick_counter, adjusted_rate, traced_block,
                 block_pulses, block_entry_position, stop_vars,
                 pin_vars, fg_vars,
                 current_block, busy, block_buffer, laser_intensity, isr_pc,
                 enqueued, stop_calls, reentered>>

\* stepper_stop_processing called by the foreground
StopProcessing ==
  /\ Foreground
  /\ UNCHANGED <<other_vars, out_bits_fresh>>
  /\ stop_calls < MaxStopCalls
  /\ stop_calls' = stop_calls + 1
  /\ stepper_stop_processing
  /\ emitted' = {"stepper_stop_processing"}
  /\ UNCHANGED <<motion_vars, stop_vars, pin_vars, fg_vars, busy,
                 block_buffer, isr_pc, enqueued, reentered>>

\* stepper_request_stop without its if (!stop_requested)
RequestStop_Test_Unguarded(status) ==
  /\ Foreground
  /\ UNCHANGED <<other_vars, out_bits_fresh>>
  /\ fg_pc' = "set_status"
  /\ fg_status' = status
  /\ emitted' = {"request_stop_enter"}
  /\ UNCHANGED <<motion_vars, stop_vars, pin_vars, current_block, busy,
                 processing_flag, OCIE1A, block_buffer, laser_intensity,
                 isr_pc, enqueued, stop_calls, reentered, DRIVEBOARD_USB>>

\* stepper_request_stop(status) called by the foreground, statement by
\* statement: the step ISR may run between any two of them.
\*   if (!stop_requested) {
RequestStop_Test(status) ==
  /\ Foreground
  /\ UNCHANGED <<other_vars, out_bits_fresh>>
  /\ fg_pc' = IF ~stop_requested THEN "set_status" ELSE "idle"
  /\ fg_status' = status
  /\ emitted' = IF ~stop_requested THEN {"request_stop_enter"} ELSE {"request_stop_skip"}
  /\ UNCHANGED <<motion_vars, stop_vars, pin_vars, current_block, busy,
                 processing_flag, OCIE1A, block_buffer, laser_intensity,
                 isr_pc, enqueued, stop_calls, reentered, DRIVEBOARD_USB>>

\*     stop_status = status;
RequestStop_Status ==
  /\ isr_pc = "idle" /\ fg_pc = "set_status"
  /\ UNCHANGED <<other_vars, out_bits_fresh>>
  /\ stop_status' = fg_status
  /\ fg_pc' = "set_flag"
  /\ emitted' = {}
  /\ UNCHANGED <<motion_vars, pin_vars, stop_requested, fg_status,
                 DRIVEBOARD_USB,
                 current_block, busy, processing_flag, OCIE1A, block_buffer,
                 laser_intensity, isr_pc, enqueued, stop_calls, reentered>>

\*     stop_requested = true; serial_stop(); }
\* (serial_stop touches no state of the stepper)
RequestStop_Flag ==
  /\ isr_pc = "idle" /\ fg_pc = "set_flag"
  /\ UNCHANGED <<other_vars, out_bits_fresh>>
  /\ stop_requested' = TRUE
  /\ fg_pc' = "idle"
  /\ emitted' = {"serial_stop"}
  /\ UNCHANGED <<motion_vars, pin_vars, stop_status, fg_status,
                 DRIVEBOARD_USB,
                 current_block, busy, processing_flag, OCIE1A, block_buffer,
                 laser_intensity, isr_pc, enqueued, stop_calls, reentered>>

\* stepper_stop_resume that clears the flag and keeps the status
stepper_stop_resume_KeepStatus ==
  /\ Foreground
  /\ UNCHANGED <<other_vars, out_bits_fresh>>
  /\ stop_requested' = FALSE
  /\ emitted' = {"stepper_stop_resume"}
  /\ UNCHANGED <<motion_vars, pin_vars, fg_vars, current_block, busy,
                 processing_flag, OCIE1A, block_buffer, laser_intensity,
                 isr_pc, enqueued, stop_calls, reentered, stop_status>>

\* stepper_stop_resume
stepper_stop_resume ==
  /\ Foreground
  /\ UNCHANGED <<other_vars, out_bits_fresh>>
  /\ stop_status' = STOPERROR_OK
  /\ stop_requested' = FALSE
  /\ emitted' = {"stepper_stop_resume"}
  /\ UNCHANGED <<motion_vars, pin_vars, fg_vars, current_block, busy,
                 processing_flag, OCIE1A, block_buffer, laser_intensity,
                 isr_pc, enqueued, stop_calls, reentered>>

\* the planner appends a block to its buffer
PlannerAdd(b) ==
  /\ Foreground
  /\ UNCHANGED <<other_vars, out_bits_fresh>>
  /\ enqueued < MaxBlocks
  /\ block_buffer' = Append(block_buffer, b)
  /\ enqueued' = enqueued + 1
  /\ emitted' = {}
  /\ UNCHANGED <<motion_vars, stop_vars, pin_vars, fg_vars, current_block,
                 busy, processing_flag, OCIE1A, laser_intensity, isr_pc,
                 stop_calls, reentered>>

\* ------------------------------------------------------------------------
\* Block libraries
\* ------------------------------------------------------------------------

RasterBytes == {128, 192, 255}

\* a line at constant rate
FlatLine(sx, sy, sz, dir) ==
  Line("TYPE_LINE", sx, sy, sz, dir, 6000, 6000, 6000, 0, 0,
       Max3(sx, sy, sz), 255, 0)

Library ==
  { FlatLine(2, 1, 0, {"X_DIRECTION_BIT"}),
    Line("TYPE_LINE", 2, 0, 1, {}, 3000, 6000, 0, 3000, 1, 1, 128, 0),
    Command("TYPE_AIR_ASSIST_ENABLE"),
    Command("TYPE_AUX1_ASSIST_DISABLE") }

Next ==
  \/ \E sense \in SenseInputs : ISR_Enter(sense)
  \/ ISR_Nested
  \/ \E chr \in RasterBytes, ovf \in OverflowOutcomes : ISR_Body(chr, ovf)
  \/ TIMER0_OVF
  \/ stepper_start_processing
  \/ StopProcessing
  \/ \E status \in ForegroundStopCodes : RequestStop_Test(status)
  \/ RequestStop_Status
  \/ RequestStop_Flag
  \/ stepper_stop_resume
  \/ \E b \in Library : PlannerAdd(b)

Spec == Init /\ [][Next]_vars
\* ------------------------------------------------------------------------
\* Tracing single blocks: every line up to MaxSteps steps per axis in every
\* direction, and every speed profile over a small set of rates
\* ------------------------------------------------------------------------

Rates == {0, 1200, 6000, 12000}

NominalRates == {6000, 12000}

RateDeltas == {0, 3000, 7000}

BresenhamLines ==
  { FlatLine(sx, sy, sz, dir) :
      <<sx, sy, sz, dir>> \in
        { t \in (0..MaxSteps) \X (0..MaxSteps) \X (0..MaxSteps)
                  \X (SUBSET DIRECTION_MASK) : Max3(t[1], t[2], t[3]) > 0 } }

\* the planner keeps initial_rate and final_rate at or below nominal_rate
\* and accelerate_until <= decelerate_after <= step_event_count
ProfileLines ==
  { Line(t[1], t[2], 0, 0, {}, t[3], t[4], t[5], t[6], t[7], t[8], 200, 1) :
      t \in { u \in MotionTypes \X (1..MaxSteps) \X Rates \X NominalRates
                    \X Rates \X RateDeltas \X (0..MaxSteps) \X (0..MaxSteps) :
                /\ u[3] <= u[4] /\ u[5] <= u[4]
                /\ u[7] <= u[8] /\ u[8] <= u[2] } }

MotionLibrary == BresenhamLines \cup ProfileLines

\* sense inputs while tracing single blocks
MotionSenseInputs == {{}, {"DOOR_OPEN"}, {"Y1_LIMIT"}}

MotionNext ==
  \/ \E sense \in MotionSenseInputs : ISR_Enter(sense)
  \/ ISR_Nested
  \/ \E chr \in RasterBytes, ovf \in OverflowOutcomes : ISR_Body(chr, ovf)
  \/ TIMER0_OVF
  \/ stepper_start_processing
  \/ enqueued = 0 /\ \E b \in MotionLibrary : PlannerAdd(b)

\* the build with the AUX cases compiled in
InitMotion == Init /\ ~DRIVEBOARD_USB

SpecMotion == InitMotion /\ [][MotionNext]_vars

\* ------------------------------------------------------------------------
\* The concrete scenarios: one block each, traced without disturbance
\* ------------------------------------------------------------------------

\* trapezoid: 1000 step events, 6000 -> 60000 -> 6000 steps per minute
Trapezoid ==
  Line("TYPE_LINE", 1000, 0, 0, {}, 6000, 60000, 6000, 600, 900, 900, 100, 0)

\* diagonal 3:4 line
Diagonal == FlatLine(3, 4, 0, {})

\* raster block in cruise from its first step event to its last
RasterCruise ==
  Line("TYPE_RASTER_LINE", 100, 0, 0, {}, 6000, 6000, 6000, 0, 0, 100, 200, 10)

ScenarioLibrary == {Trapezoid, Diagonal, RasterCruise}

ScenarioSenseInputs == {{}}

ScenarioNext ==
  \/ \E sense \in ScenarioSenseInputs : ISR_Enter(sense)
  \/ ISR_Nested
  \/ \E chr \in RasterBytes, ovf \in OverflowOutcomes : ISR_Body(chr, ovf)
  \/ TIMER0_OVF
  \/ stepper_start_processing
  \/ enqueued = 0 /\ \E b \in ScenarioLibrary : PlannerAdd(b)

SpecScenario == InitMotion /\ [][ScenarioNext]_vars

\* ------------------------------------------------------------------------
\* The step interrupt keeps firing: no stop is requested, no limit is hit,
\* and an invocation that was entered runs to its end
\* ------------------------------------------------------------------------

LiveSenseInputs == {{}, {"DOOR_OPEN"}}

LiveEnter == \E sense \in LiveSenseInputs : ISR_Enter(sense)

LiveBody == \E chr \in RasterBytes, ovf \in OverflowOutcomes : ISR_Body(chr, ovf)

LiveNext ==
  \/ LiveEnter
  \/ ISR_Nested
  \/ LiveBody
  \/ TIMER0_OVF
  \/ stepper_start_processing
  \/ \E b \in Library : PlannerAdd(b)

\* while TIMSK1.OCIE1A is set the compare match comes again and again, and
\* the ISR, once entered, returns
SpecLive ==
  Init /\ [][LiveNext]_vars /\ WF_vars(LiveEnter) /\ WF_vars(LiveBody)

\* ------------------------------------------------------------------------
\* stepper_homing_cycle: blocking, called by the foreground while idle
\* ------------------------------------------------------------------------

\* everything of the stepper the homing cycle leaves alone
homing_frame == <<current_block, out_bits, counter_x, counter_y, counter_z,
                  step_events_completed, busy, cycles_per_step_event,
                  acceleration_tick_counter, adjusted_rate, processing_flag,
                  stop_requested, stop_status, pwm_counter, OCIE1A,
                  LASER_PWM_BIT, TCCR0B, block_buffer, laser_intensity,
                  isr_pc, fg_pc, fg_status, traced_block, block_pulses,
                  block_entry_position, enqueued, stop_calls, reentered,
                  DRIVEBOARD_USB, out_bits_fresh, call>>

StepBit(a) == IF a = X_AXIS THEN "X_STEP_BIT"
              ELSE IF a = Y_AXIS THEN "Y_STEP_BIT" ELSE "Z_STEP_BIT"

\* axes whose limit check is compiled in
HomedAxes == IF ENABLE_3AXES THEN Axes ELSE {X_AXIS, Y_AXIS}

\* uint8_t x_overshoot_count = 6
OvershootCount == 6

\* one axis in one loop iteration with its end-stop allowance used up early:
\* the axis is dropped when the count is 1
HomingAxis_DropEarly(active, count, sensed) ==
  IF active /\ sensed
  THEN IF count <= 1
       THEN [active |-> FALSE, count |-> count, toggle |-> TRUE]
       ELSE [active |-> TRUE, count |-> count - 1, toggle |-> FALSE]
  ELSE [active |-> active, count |-> count, toggle |-> FALSE]

\* one axis in one loop iteration: if (a_axis && sense_a1_limit) { ... }
HomingAxis(active, count, sensed) ==
  IF active /\ sensed
  THEN IF count = 0
       THEN [active |-> FALSE, count |-> count, toggle |-> TRUE]
       ELSE [active |-> TRUE, count |-> count - 1, toggle |-> FALSE]
  ELSE [active |-> active, count |-> count, toggle |-> FALSE]

\* homing_cycle(x_axis, y_axis, z_axis, reverse_direction, ...) up to its
\* loop.  first, released, pulses_after and pulsed_removed observe, per
\* axis: its end-stop has been sensed asserted, it has been sensed
\* unasserted after that, the step pulses since it was first sensed, and a
\* step pulse after the axis was dropped.
homing_cycle_Enter(x_axis, y_axis, z_axis, reverse_direction) ==
  LET axis == [a \in Axes |-> IF a = X_AXIS THEN x_axis
                              ELSE IF a = Y_AXIS THEN y_axis ELSE z_axis]
      bits == DIRECTION_MASK \cup {StepBit(a) : a \in {b \in Axes : axis[b]}}
      dirs == IF reverse_direction THEN Xor(bits, DIRECTION_MASK) ELSE bits
  IN  [pc |-> "loop", axis |-> axis, reverse_direction |-> reverse_direction,
       overshoot_count |-> [a \in Axes |-> OvershootCount],
       out_bits |-> Xor(dirs, INVERT_MASK),
       first |-> [a \in Axes |-> FALSE],
       released |-> [a \in Axes |-> FALSE],
       pulses_after |-> [a \in Axes |-> 0],
       pulsed_removed |-> [a \in Axes |-> FALSE]]

\* stepper_homing_cycle: the approach pass
stepper_homing_cycle ==
  /\ homing.pc = "idle"
  /\ Foreground
  /\ ~processing_flag
  /\ homing' = homing_cycle_Enter(TRUE, TRUE, ENABLE_3AXES, FALSE)
  /\ emitted' = {}
  /\ UNCHANGED <<homing_frame, stepper_position>>

\* stepper_homing_cycle: the pass that leaves the limit
homing_cycle_Leave ==
  /\ homing.pc = "returned"
  /\ ~homing.reverse_direction
  /\ homing' = homing_cycle_Enter(TRUE, TRUE, ENABLE_3AXES, TRUE)
  /\ emitted' = {}
  /\ UNCHANGED <<homing_frame, stepper_position>>

\* sense_a1_limit of one iteration: limit_pin are the axes whose A1_LIMIT_BIT
\* reads 1 in LIMIT_PIN; the reverse pass inverts the reading
HomingSense(limit_pin, reverse_direction) ==
  LET bits == IF reverse_direction THEN Axes \ limit_pin ELSE limit_pin
  IN  IF DRIVEBOARD_USB THEN bits ELSE Axes \ bits

\* one iteration of the for(;;) of homing_cycle
homing_cycle_Iterate(limit_pin) ==
  /\ homing.pc = "loop"
  /\ LET limits == HomingSense(limit_pin, homing.reverse_direction)
         ax == [a \in Axes |->
                 IF a \in HomedAxes
                 THEN HomingAxis(homing.axis[a], homing.overshoot_count[a],
                                 a \in limits)
                 ELSE [active |-> homing.axis[a],
                       count |-> homing.overshoot_count[a], toggle |-> FALSE]]
         toggled == {StepBit(a) : a \in {b \in Axes : ax[b].toggle}}
         ob == Xor(homing.out_bits, toggled)
         go == \E a \in Axes : ax[a].active
         pulsed == IF go THEN ob \cap STEPPING_MASK ELSE {}
         first == [a \in Axes |->
                    homing.first[a] \/ (homing.axis[a] /\ a \in limits)]
         released == [a \in Axes |->
                       homing.released[a]
                       \/ (homing.axis[a] /\ homing.first[a]
                           /\ a \notin limits)]
     IN  /\ homing' =
              [homing EXCEPT
                 !.pc = IF go THEN "loop" ELSE "returned",
                 !.axis = [a \in Axes |-> ax[a].active],
                 !.overshoot_count = [a \in Axes |-> ax[a].count],
                 !.out_bits = ob,
                 !.first = first,
                 !.released = released,
                 !.pulses_after =
                   [a \in Axes |->
                      IF first[a] /\ ~released[a] /\ StepBit(a) \in pulsed
                      THEN homing.pulses_after[a] + 1
                      ELSE homing.pulses_after[a]],
                 !.pulsed_removed =
                   [a \in Axes |->
                      homing.pulsed_removed[a]
                      \/ (~ax[a].active /\ StepBit(a) \in pulsed)]]
         /\ emitted' = pulsed
         \* clear_vector(stepper_position) after the loop
         /\ stepper_position' = IF go THEN stepper_position ELSE ZeroVector
  /\ UNCHANGED homing_frame

HomingNext ==
  \/ stepper_homing_cycle
  \/ homing_cycle_Leave
  \/ \E limit_pin \in SUBSET Axes : homing_cycle_Iterate(limit_pin)

SpecHoming == InitMotion /\ [][HomingNext]_vars

\* ------------------------------------------------------------------------
\* Single calls of the pure functions
\* ------------------------------------------------------------------------

\* the limits config_step_timer compares cycles with
TimerLimits == {65535, 524287, 4194303, 16777215, 67108863}

\* its arguments: around zero, around every limit, multiples of a prime in
\* the range of the prescalers, and the top of the positive range (larger
\* uint32_t values take the same branch)
CyclesInputs ==
  (0..MaxOffset)
  \cup UNION {(l - MaxOffset)..(l + MaxOffset) : l \in TimerLimits}
  \cup {k * 1000003 : k \in 1..(4 * MaxOffset)}
  \cup {2147483647 - k : k \in 0..MaxOffset}

Call_config_step_timer(cycles) ==
  /\ call = NoCall
  /\ call' = [fn |-> "config_step_timer", cycles |-> cycles,
              result |-> config_step_timer(cycles)]
  /\ UNCHANGED <<stepper_vars, homing>>

\* the raster mapping of the cruise phase, for a byte of the raster stream
\* and a block of the given nominal_laser_intensity
Call_RasterIntensity(chr, intensity, ovf) ==
  /\ call = NoCall
  /\ call' = [fn |-> "raster_intensity", chr |-> chr,
              nominal_laser_intensity |-> intensity,
              result |-> RasterIntensity(
                           chr, [nominal_laser_intensity |-> intensity], ovf)]
  /\ UNCHANGED <<stepper_vars, homing>>

\* one call per run: nothing is called once a result is recorded
FunctionsNext ==
  \/ call = NoCall /\ \E cycles \in CyclesInputs : Call_config_step_timer(cycles)
  \/ call = NoCall
     /\ \E chr \in 128..255, intensity \in 0..255, ovf \in OverflowOutcomes :
          Call_RasterIntensity(chr, intensity, ovf)

SpecFunctions == Init /\ [][FunctionsNext]_vars

\* ------------------------------------------------------------------------
\* Claims
\* ------------------------------------------------------------------------

BlockDone == "planner_discard_current_block" \in emitted /\ IsMotion(traced_block)

Signed(steps, dirbit, b) == IF dirbit \in b.direction_bits THEN -steps ELSE steps

\* C1: when a motion block is discarded, step_events_completed equals its
\* step_event_count, the tracer has set the step bit of each axis exactly
\* steps_a times, and stepper_position moved by steps_a per axis, in the
\* direction of its direction bit.
C1_BlockCompletes ==
  BlockDone =>
    /\ step_events_completed = traced_block.step_event_count
    /\ block_pulses[X_AXIS] = traced_block.steps_x
    /\ block_pulses[Y_AXIS] = traced_block.steps_y
    /\ block_pulses[Z_AXIS] = traced_block.steps_z
    /\ stepper_position[X_AXIS] - block_entry_position[X_AXIS]
         = Signed(traced_block.steps_x, "X_DIRECTION_BIT", traced_block)
    /\ stepper_position[Y_AXIS] - block_entry_position[Y_AXIS]
         = Signed(traced_block.steps_y, "Y_DIRECTION_BIT", traced_block)
    /\ stepper_position[Z_AXIS] - block_entry_position[Z_AXIS]
         = Signed(traced_block.steps_z, "Z_DIRECTION_BIT", traced_block)

C1_Witness ==
  /\ BlockDone
  /\ traced_block.steps_x = 3 /\ traced_block.steps_y = 2
  /\ traced_block.steps_z = 0
  /\ traced_block.direction_bits = {"X_DIRECTION_BIT"}
  /\ block_pulses[X_AXIS] = 3 /\ block_pulses[Y_AXIS] = 2
  /\ stepper_position[X_AXIS] = block_entry_position[X_AXIS] - 3

InCounterRange(c, n) == -n < c /\ c <= n

\* C2: at the end of every step event of a motion block each bresenham
\* counter lies in (-step_event_count, step_event_count].
C2_CounterRange ==
  (IsMotion(traced_block) /\ (current_block = traced_block \/ BlockDone)) =>
    /\ InCounterRange(counter_x, traced_block.step_event_count)
    /\ InCounterRange(counter_y, traced_block.step_event_count)
    /\ InCounterRange(counter_z, traced_block.step_event_count)

C2_Witness ==
  /\ current_block = traced_block /\ IsMotion(traced_block)
  /\ traced_block.step_event_count = 3
  /\ step_events_completed = 2
  /\ counter_x = -2 /\ counter_y = 0

Tracing == current_block # NONE /\ IsMotion(current_block)

\* C3 as claimed: during a motion block
\* MINIMUM_STEPS_PER_MINUTE <= adjusted_rate <= nominal_rate.
C3_RateWithinBounds ==
  Tracing =>
    /\ MINIMUM_STEPS_PER_MINUTE <= adjusted_rate
    /\ adjusted_rate <= current_block.nominal_rate

\* C3, amended: during a motion block adjusted_rate stays between the smaller
\* of initial_rate and final_rate and nominal_rate, and the step timer is
\* programmed for adjusted_rate clamped to MINIMUM_STEPS_PER_MINUTE, so a step
\* event never lasts longer than CYCLES_PER_MINUTE / MINIMUM_STEPS_PER_MINUTE.
C3_RateAmended ==
  Tracing =>
    /\ Min(current_block.initial_rate, current_block.final_rate) <= adjusted_rate
    /\ adjusted_rate <= current_block.nominal_rate
    /\ cycles_per_step_event = adjust_speed(adjusted_rate)
    /\ cycles_per_step_event <= CYCLES_PER_MINUTE \div MINIMUM_STEPS_PER_MINUTE

C3_Witness ==
  /\ Tracing
  /\ "decelerate" \in emitted
  /\ adjusted_rate = 1200
  /\ cycles_per_step_event = adjust_speed(MINIMUM_STEPS_PER_MINUTE)

StepISR == "TIMER1_COMPA" \in emitted'

NoPulse == emitted' \cap PulseEvents = {}

MidBlock ==
  /\ IsMotion(traced_block)
  /\ 0 < step_events_completed
  /\ step_events_completed < traced_block.step_event_count

\* C4: a step timer tick that arrives while an invocation of the step ISR is
\* past its sei() finds busy set and returns at once: it emits no step or
\* laser pulse and leaves out_bits, the bresenham counters,
\* step_events_completed, stepper_position, current_block, adjusted_rate and
\* busy as they are, so no second invocation is ever past the busy guard.
C4_NestedDropped ==
  [][ (isr_pc = "body" /\ StepISR) =>
        /\ busy
        /\ ~reentered'
        /\ NoPulse
        /\ UNCHANGED <<out_bits, counter_x, counter_y, counter_z,
                       step_events_completed, stepper_position, current_block,
                       adjusted_rate, busy>> ]_vars

C4_Witness ==
  /\ "tick_dropped" \in emitted
  /\ isr_pc = "body"
  /\ busy
  /\ Tracing
  /\ StepPulsesEmitted # {}

C6_WithinOneInvocation ==
  "LIMIT_HIT_X1" \in emitted =>
    /\ stop_status = "LIMIT_HIT_X1"
    /\ ~processing_flag
    /\ block_buffer = <<>>
    /\ emitted \cap PulseEvents = {}

\* C6, amended: the invocation that observes the X1 limit records
\* LIMIT_HIT_X1 and sets stop_requested, emits no pulse and leaves processing
\* armed and the planner buffer as they are; the step ISR invocation that
\* follows it turns processing off and resets the planner buffer, again
\* without a pulse.
C6_LimitStopsOnNextEntry ==
  [][ /\ "LIMIT_HIT_X1" \in emitted' =>
           /\ stop_status' = "LIMIT_HIT_X1"
           /\ stop_requested'
           /\ NoPulse
           /\ processing_flag'
           /\ UNCHANGED <<processing_flag, block_buffer, current_block,
                          stepper_position>>
      /\ ("LIMIT_HIT_X1" \in emitted /\ StepISR) =>
           /\ ~processing_flag'
           /\ block_buffer' = <<>>
           /\ stop_status' = "LIMIT_HIT_X1"
           /\ NoPulse ]_vars

C6_Witness ==
  /\ "planner_reset_block_buffer" \in emitted
  /\ stop_status = "LIMIT_HIT_X1"
  /\ stop_requested
  /\ ~processing_flag
  /\ block_buffer = <<>>
  /\ MidBlock

\* C7 as claimed: with stop_requested set, every entry of the step ISR turns
\* processing off without a pulse, and until stepper_stop_resume
\* stop_requested and stop_status stay as they are.
C7_StopLatched ==
  [][ stop_requested =>
        /\ StepISR => (~processing_flag' /\ NoPulse)
        /\ "stepper_stop_resume" \notin emitted' =>
             (stop_requested' /\ stop_status' = stop_status) ]_vars

\* C8: stepper_request_stop called while a stop is already latched returns
\* at once: stop_status stays what the first call recorded, stop_requested
\* stays set, and serial_stop is not invoked again.
C8_SecondCallNoOp ==
  [][ (Foreground /\ stop_requested /\ stop_requested') =>
        /\ stop_status' = stop_status
        /\ "serial_stop" \notin emitted'
        /\ fg_pc' = "idle" ]_vars

C8_Witness ==
  /\ "request_stop_skip" \in emitted
  /\ fg_pc = "idle"
  /\ stop_requested
  /\ stop_status = "LIMIT_HIT_Y2"
  /\ fg_status = STOPERROR_OK

\* C9 as claimed: stepper_stop_resume after stepper_request_stop(STOPERROR_OK)
\* leaves stop_requested false, stop_status STOPERROR_OK, processing off and
\* no current block, with stepper_position untouched since the stop.
C9_ResumeIdleReady ==
  [][ /\ ("stepper_stop_resume" \in emitted' /\ stop_requested
            /\ stop_status = STOPERROR_OK) =>
           /\ ~stop_requested'
           /\ stop_status' = STOPERROR_OK
           /\ ~processing_flag'
           /\ current_block' = NONE
      /\ stop_requested => stepper_position' = stepper_position ]_vars

\* C9, amended: stepper_stop_resume clears stop_requested and sets stop_status
\* to STOPERROR_OK, and stepper_position does not change from the moment
\* stop_requested is set until the resume; processing is off and there is no
\* current block after the resume if a step ISR invocation ran while the stop
\* was latched (or the stepper was idle already), and otherwise the resume
\* leaves processing armed and the current block in place.
C9_ResumeAfterStop ==
  [][ /\ ("stepper_stop_resume" \in emitted' /\ stop_requested) =>
           /\ ~stop_requested'
           /\ stop_status' = STOPERROR_OK
           /\ UNCHANGED <<processing_flag, current_block, stepper_position>>
           /\ ~processing_flag => current_block' = NONE
      /\ stop_requested => stepper_position' = stepper_position
      /\ (stop_requested /\ StepISR) =>
           (~processing_flag' /\ current_block' = NONE) ]_vars

C9_Witness ==
  /\ emitted = {"stepper_stop_resume"}
  /\ fg_status = STOPERROR_OK
  /\ ~stop_requested
  /\ stop_status = STOPERROR_OK
  /\ ~processing_flag
  /\ current_block = NONE
  /\ MidBlock

C11_ReleasedOnlyByDiscard ==
  [][ (current_block # NONE /\ current_block' = NONE) =>
        block_buffer' # block_buffer ]_vars

Prescalers == <<1, 8, 64, 256, 1024>>

Fits16(cycles, i) == cycles \div Prescalers[i] <= 65535

\* C12 as claimed: config_step_timer(cycles) selects the smallest prescaler
\* of 1, 8, 64, 256, 1024 whose ceiling cycles / prescaler fits in 16 bits and
\* returns ceiling * prescaler, within one prescaler step below cycles; when
\* none fits it programs ceiling 0xFFFF with prescaler 1024 and returns
\* 0xFFFF * 1024 = 67107840.
C12_TimerSetting ==
  call.fn = "config_step_timer" =>
    LET c == call.cycles
        r == call.result
        d == Prescalers[r.prescaler + 1]
    IN  IF \E i \in 1..5 : Fits16(c, i) THEN
          /\ Fits16(c, r.prescaler + 1)
          /\ \A i \in 1..r.prescaler : ~Fits16(c, i)
          /\ r.ceiling = c \div d
          /\ r.actual_cycles = r.ceiling * d
          /\ c - d < r.actual_cycles
          /\ r.actual_cycles <= c
        ELSE
          /\ r.ceiling = 65535
          /\ d = 1024
          /\ r.actual_cycles = 67107840

\* a step event of the trapezoid block: adjusted_rate stays at or below
\* nominal_rate, does not fall before accelerate_until, does not rise after
\* decelerate_after, and is `last` once the 1000th step event is done
TrapezoidStep(last) ==
  (isr_pc = "body" /\ isr_pc' = "idle" /\ traced_block' = Trapezoid) =>
    LET e == step_events_completed'
        before == IF e = 1 THEN Trapezoid.initial_rate ELSE adjusted_rate
    IN  /\ adjusted_rate' <= Trapezoid.nominal_rate
        /\ e < Trapezoid.accelerate_until => adjusted_rate' >= before
        /\ e > Trapezoid.decelerate_after => adjusted_rate' <= before
        /\ e = Trapezoid.step_event_count => adjusted_rate' = last

\* C13 as claimed: over the trapezoid block adjusted_rate is non-decreasing
\* in the acceleration phase, never above 60000, non-increasing in the
\* deceleration phase, and exactly 6000 at step event 1000.
C13_TrapezoidEndsAtFinalRate == [][TrapezoidStep(6000)]_vars

\* C13, amended: over the trapezoid block adjusted_rate is non-decreasing in
\* the acceleration phase, never above 60000, non-increasing in the
\* deceleration phase, and 54000 at step event 1000: the 99 step events after
\* decelerate_after span ten acceleration ticks of 600 each.
C13_TrapezoidProfile == [][TrapezoidStep(54000)]_vars

C13_Witness ==
  /\ traced_block = Trapezoid
  /\ "planner_discard_current_block" \in emitted
  /\ step_events_completed = 1000
  /\ adjusted_rate = 54000

\* out_bits holds step event step_events_completed of the diagonal block,
\* with an X step exactly on the events of xEvents and a Y step on each, and
\* the block ends with 3 X steps and 4 Y steps
DiagonalSteps(xEvents) ==
  (traced_block = Diagonal /\ out_bits_fresh) =>
    /\ "Y_STEP_BIT" \in StepPulsesEmitted
    /\ "X_STEP_BIT" \in StepPulsesEmitted <=> step_events_completed \in xEvents
    /\ "Z_STEP_BIT" \notin StepPulsesEmitted
    /\ block_pulses[Y_AXIS] = step_events_completed
    /\ BlockDone => block_pulses[X_AXIS] = 3

\* C14 as claimed: the 3:4 block gets 4 Y pulses, one per step event, and 3 X
\* pulses, on step events 1, 2 and 4.
C14_DiagonalX124 == DiagonalSteps({1, 2, 4})

\* C14, amended: the 3:4 block gets 4 Y pulses, one per step event, and 3 X
\* pulses, on step events 1, 3 and 4.
C14_DiagonalX134 == DiagonalSteps({1, 3, 4})

C14_Witness ==
  /\ traced_block = Diagonal
  /\ out_bits_fresh
  /\ step_events_completed = 3
  /\ "X_STEP_BIT" \in StepPulsesEmitted
  /\ block_pulses[X_AXIS] = 2
  /\ counter_x = -1

\* C15 as claimed: the intensity set from a raster byte in 128..255 is
\* (byte-128)*2*nominal_laser_intensity/255 and lies between 0 and
\* nominal_laser_intensity; with nominal_laser_intensity 200 the bytes 128,
\* 255 and 192 give 0, 200 and 100.
C15_RasterMapping ==
  call.fn = "raster_intensity" =>
    /\ call.result = ((call.chr - 128) * 2 * call.nominal_laser_intensity)
                       \div 255
    /\ 0 <= call.result
    /\ call.result <= call.nominal_laser_intensity
    /\ call.nominal_laser_intensity = 200 =>
         /\ call.chr = 128 => call.result = 0
         /\ call.chr = 255 => call.result = 200
         /\ call.chr = 192 => call.result = 100

\* C16: in a homing pass, an axis whose end-stop stays asserted once it has
\* been sensed gets exactly six step pulses from the iteration that first
\* sensed it and is then dropped from the pulse pattern for good; the pass
\* returns exactly when every axis has been dropped, with stepper_position
\* all zero.
C16_HomingOvershoot ==
  homing.pc \in {"loop", "returned"} =>
    /\ \A a \in HomedAxes :
         /\ (~homing.axis[a] /\ ~homing.released[a]) =>
               homing.pulses_after[a] = 6
         /\ (homing.axis[a] /\ ~homing.released[a]) =>
               /\ homing.pulses_after[a] = 6 - homing.overshoot_count[a]
               /\ homing.first[a] => homing.pulses_after[a] >= 1
         /\ ~homing.axis[a] => StepBit(a) \notin homing.out_bits
         /\ ~homing.pulsed_removed[a]
    /\ homing.pc = "returned" <=> \A a \in HomedAxes : ~homing.axis[a]
    /\ homing.pc = "returned" => stepper_position = ZeroVector

\* the leaving pass has returned with every axis held at its limit and dropped
C16_Witness ==
  /\ homing.pc = "returned"
  /\ homing.reverse_direction
  /\ \A a \in HomedAxes : ~homing.released[a] /\ homing.pulses_after[a] = 6
  /\ emitted = {}
  /\ stepper_position = ZeroVector

\* C17: an entry of the step ISR that senses DOOR_OPEN or CHILLER_OFF and no
\* limit cuts the intensity to 0 before the laser pulse decision: it issues
\* no laser pulse, the laser pin is not high after it, it does not set
\* stop_requested, and it goes on into block execution.
C17_InterlockLaserOff ==
  [][ (StepISR /\ isr_pc = "idle" /\ ~busy /\ ~stop_requested
       /\ "control_laser_intensity" \in emitted'
       /\ emitted' \cap {"LIMIT_HIT_X1", "LIMIT_HIT_X2", "LIMIT_HIT_Y1",
                         "LIMIT_HIT_Y2", "LIMIT_HIT_Z1", "LIMIT_HIT_Z2"} = {})
      => /\ laser_intensity' = 0
         /\ "LASER_PULSE" \notin emitted'
         /\ ~LASER_PWM_BIT'
         /\ UNCHANGED stop_vars
         /\ isr_pc' = "body" ]_vars

\* an invocation of the step ISR runs to its end
BodyStep == isr_pc = "body" /\ isr_pc' = "idle"

FlatRates(b) ==
  IsMotion(b) /\ b.initial_rate = b.nominal_rate /\ b.final_rate = b.nominal_rate

\* adjust_speed is called after the call at block entry
Reprogrammed ==
  \/ emitted' \cap {"accelerate", "decelerate"} # {}
  \/ "adjust_speed" \in emitted' /\ "block_entry" \notin emitted'

ClaimedPhase(b, e) ==
  IF e < b.accelerate_until THEN "accelerating"
  ELSE IF e < b.decelerate_after THEN "cruise"
  ELSE IF e = b.decelerate_after THEN "midpoint"
  ELSE "decelerating"

PhaseMarkers == {"accelerating", "cruise", "midpoint", "decelerating"}

\* C19: at every step event of an unfinished motion block with
\* accelerate_until <= decelerate_after exactly one phase is taken:
\* accelerate below accelerate_until, cruise from accelerate_until to below
\* decelerate_after, the tick counter reset at decelerate_after, decelerate
\* above it; with accelerate_until = 0 no acceleration adjustment is made and
\* with decelerate_after = step_event_count no deceleration adjustment.
C19_OnePhasePerStepEvent ==
  [][ (BodyStep /\ out_bits_fresh' /\ IsMotion(traced_block')
       /\ step_events_completed' < traced_block'.step_event_count
       /\ traced_block'.accelerate_until <= traced_block'.decelerate_after) =>
        LET b == traced_block'
            e == step_events_completed'
        IN  /\ emitted' \cap PhaseMarkers = {ClaimedPhase(b, e)}
            /\ "midpoint" \in emitted' =>
                  acceleration_tick_counter' = CYCLES_PER_ACCELERATION_TICK \div 2
            /\ "accelerate" \in emitted' => "accelerating" \in emitted'
            /\ "decelerate" \in emitted' => "decelerating" \in emitted'
            /\ b.accelerate_until = 0 => "accelerate" \notin emitted'
            /\ b.decelerate_after = b.step_event_count =>
                  "decelerate" \notin emitted' ]_vars

\* a block that accelerates, cruises and is past its decelerate_after
C19_Witness ==
  /\ Tracing
  /\ current_block.accelerate_until = 1
  /\ current_block.decelerate_after = 1
  /\ current_block.step_event_count = 3
  /\ step_events_completed = 2
  /\ "decelerating" \in emitted
  /\ "decelerate" \in emitted

\* step pulses go out on the step pins
StepLatch == StepISR /\ emitted' \cap STEPPING_MASK # {}

\* C20: the out_bits computed by one step event, whose steps stepper_position
\* has counted, are latched onto the step pins by exactly one later
\* invocation of the step ISR: step pulses go out only for a step event not
\* latched before (never twice), and a step event not yet latched is not
\* discarded (never dropped).
C20_LatchedExactlyOnce ==
  [][ /\ StepLatch => out_bits_fresh
      /\ (out_bits_fresh /\ ~out_bits_fresh') =>
            (StepISR /\ StepPulsesEmitted \subseteq emitted') ]_vars

\* C21: while the step interrupt keeps firing and no stop is requested,
\* every block that becomes current_block is eventually discarded: an
\* assist-toggle block within the invocation that fetched it (so it is never
\* current_block when an invocation has returned), a motion block after its
\* step events; no block type stays current_block forever.
C21_EveryBlockDiscarded ==
  /\ [](current_block # NONE => IsMotion(current_block))
  /\ (current_block # NONE) ~> ("planner_discard_current_block" \in emitted)

\* C22: after every call of acceleration_tick the acceleration_tick_counter
\* is at most CYCLES_PER_ACCELERATION_TICK, whatever cycles_per_step_event
\* the timer was programmed with: no whole tick period stays in the counter
\* uncounted, so the true results count the periods that have elapsed.
C22_TickCounterWithinPeriod ==
  emitted \cap {"accelerating", "decelerating"} # {} =>
    acceleration_tick_counter <= CYCLES_PER_ACCELERATION_TICK

\* an invocation of the step ISR finds no current block and the planner empty
Underrun == BodyStep /\ current_block = NONE /\ block_buffer = <<>>

\* stepper_start_processing arms the step interrupt
Rearm == ~processing_flag /\ processing_flag'

\* the underrun invocation goes idle and leaves position and stop state alone
C23_UnderrunDisarms ==
  [][ Underrun =>
        /\ ~processing_flag' /\ ~OCIE1A' /\ ~busy'
        /\ current_block' = NONE
        /\ UNCHANGED <<stepper_position, stop_vars>> ]_vars

\* re-arming resets out_bits to the idle value, so that the next latch drives
\* no step line
C23_RearmIdleBits ==
  [][ Rearm => (OCIE1A' /\ out_bits' = INVERT_MASK /\ StepPulsesEmitted' = {}) ]_vars

\* once armed with blocks in the queue, the queue is worked off
C23_QueueWorkedOff ==
  (processing_flag /\ block_buffer # <<>>) ~>
    (block_buffer = <<>> /\ current_block = NONE)

\* C23: on queue underrun the step ISR disarms itself without touching
\* position or stop state; a later stepper_start_processing with blocks in
\* the queue re-arms it with out_bits at the idle value, so the first
\* invocation after it emits no step pulse, and every block enqueued before
\* it is eventually executed.
C23_UnderrunThenRearm ==
  C23_UnderrunDisarms /\ C23_RearmIdleBits /\ C23_QueueWorkedOff

\* C24: however a foreground call of stepper_request_stop interleaves with a
\* step ISR invocation that requests a stop on a limit hit, stop_status is
\* written once per stop episode: it does not change while stop_requested
\* is set, and when stop_requested becomes set it is the status of the
\* request that set it.
C24_StatusWrittenOnce ==
  [][ /\ (stop_requested /\ stop_requested') => stop_status' = stop_status
      /\ (~stop_requested /\ stop_requested') =>
            \/ StepISR /\ stop_status' \in emitted'
            \/ fg_pc = "set_flag" /\ stop_status' = fg_status ]_vars

\* stepper_stop_processing disables the step timer compare interrupt
Disarmed == OCIE1A /\ ~OCIE1A'

\* the laser pin is high and timer0 is not running to reset it
HeldHigh == LASER_PWM_BIT /\ ~TCCR0B

\* C25: whenever stepper_stop_processing disarms the step interrupt (stop
\* handled, queue underrun, foreground call) the laser is off: the commanded
\* intensity is 0 and the laser pin is not left high by a full-duty pulse
\* (duty >= 242, no reset timer), also when the invocation that goes idle
\* started that pulse itself.
C25_LaserOffWhenDisarmed ==
  [][ Disarmed => (laser_intensity' = 0 /\ ~HeldHigh') ]_vars

====
